---- MODULE Spec2Model ----
(***************************************************************************)
(* Knowledge retrieval engine of wsoneking/dream-business.                 *)
(*                                                                         *)
(* DREAM engine: app/rag_engine.py (RAGEngine, Semantic/Chroma backend)     *)
(* and app/rag_engine_fallback.py (FallbackRAGEngine, Lexical/TF-IDF).      *)
(* Baby-care engine: baby-care-ai/app/rag_engine.py, app/chain.py and       *)
(* api/routes.py.                                                           *)
(*                                                                         *)
(* Text is abstracted to its tokens: a file is a sequence of paragraphs,    *)
(* a paragraph is the set of terms the tokenizer yields for it.  The        *)
(* splitter yields one chunk per paragraph; the Lexical loader indexes      *)
(* the whole file as one document.                                          *)
(***************************************************************************)
EXTENDS Integers, Sequences, FiniteSets, TLC

\* ------------------------------------------------------------------ bounds
\* largest number of chunks a modelled Chroma collection may hold
MaxColl == 4
\* largest number of initialize() calls made on one engine object
MaxInits == 2
\* largest number of edits of the data directory
MaxEdits == 1
\* the corpora an engine lives through are the first MaxCorpus of Corpora
MaxCorpus == 3
\* largest number of baby-care setup_rag_chain runs (engine generations)
MaxSetups == 2
\* largest number of documents handed to one add_documents call
MaxDocs == 201
\* the clock runs from 0 to MaxClock milliseconds
MaxClock == 2
\* largest number of add_documents calls on the collection
MaxAdds == 2
\* how far a k or a collection size goes beyond the limit of 10 results
MaxOver == 2

\* ------------------------------------------------------- program constants
\* ChromaDBWrapper.add_documents batch size
batch_size == 100
\* k used by get_dream_framework_context
ContextK == 3

\* ---------------------------------------------------------------- helpers
Min(a, b) == IF a < b THEN a ELSE b

Max(a, b) == IF a < b THEN b ELSE a

Range(s) == {s[i] : i \in 1..Len(s)}

RECURSIVE SumOver(_, _)
SumOver(S, f) ==
    IF S = {} THEN 0
    ELSE LET x == CHOOSE y \in S : TRUE IN f[x] + SumOver(S \ {x}, f)

RECURSIVE Flatten(_)
Flatten(ss) == IF ss = <<>> THEN <<>> ELSE Head(ss) \o Flatten(Tail(ss))

\* ------------------------------------------------------------- the corpus
\* the four data directories, in the order both loaders visit them, named
\* by the type tag they give their documents
DocTypes == <<"framework", "case_study", "template", "benchmark">>

MkFile(p, d, s, r, ps) ==
    [path |-> p, dir |-> d, suffix |-> s, readable |-> r, paras |-> ps]

\* the source corpora the data directory may hold (files in rglob order)
Corpora ==
    << <<>>,
       << MkFile(1, "framework", "md", TRUE, <<{1, 2}>>) >>,
       << MkFile(1, "framework", "md", TRUE, <<{1, 2}>>),
          MkFile(2, "case_study", "md", TRUE, <<{2, 3}>>) >>,
       << MkFile(1, "framework", "md", TRUE, <<{1}, {2}>>),
          MkFile(3, "framework", "txt", FALSE, <<{3}>>),
          MkFile(4, "benchmark", "json", TRUE, <<{3}>>) >>,
       << MkFile(1, "framework", "md", TRUE, <<{1, 2}, {}>>),
          MkFile(5, "framework", "md", TRUE, <<{1, 3}>>),
          MkFile(2, "case_study", "md", TRUE, <<{2, 3}>>) >> >>

NCorpora == Len(Corpora)

\* queries, as the set of terms the tokenizer yields for the query text
Queries == {{}, {1, 2}, {2, 3}, {3}}

\* result counts a caller may ask for: k is any int, the request model of
\* /knowledge/search sets no bound
Ks == {0 - 1, 0, 1, 3}

\* filter_type values: None, the empty string, a document type
FilterTypes == {"None", "", "framework", "benchmark"}

\* Python truthiness of `if filter_type:`
Truthy(ft) == ft \notin {"None", ""}

Tokens(content) == UNION Range(content)

\* --------------------------------------------------------- Lexical loader
\* FallbackRAGEngine._load_documents_from_directory: .md/.txt/.json files,
\* an unreadable file is skipped, blank content is skipped
FallbackLoadDir(files, type) ==
    LET keep(f) == /\ f.dir = type
                   /\ f.suffix \in {"md", "txt", "json"}
                   /\ f.readable
                   /\ \E j \in DOMAIN f.paras : f.paras[j] # {}
        sel == SelectSeq(files, keep)
    IN  [i \in 1..Len(sel) |->
            [content |-> sel[i].paras, type |-> type, source |-> sel[i].path]]

\* FallbackRAGEngine.load_knowledge_base: documents is reset and extended
\* directory by directory; failAt = d > 0 is the scan of directory d raising
FallbackLoad(files, failAt) ==
    LET upto == IF failAt = 0 THEN Len(DocTypes) ELSE failAt - 1
    IN  [documents |-> Flatten([d \in 1..upto |-> FallbackLoadDir(files, DocTypes[d])]),
         raised    |-> failAt # 0]

\* -------------------------------------------------------- Semantic loader
\* RAGEngine._load_documents_from_directory: only .md/.txt files
SemanticLoadDir(files, type) ==
    LET keep(f) == /\ f.dir = type
                   /\ f.suffix \in {"md", "txt"}
                   /\ f.readable
        sel == SelectSeq(files, keep)
    IN  [i \in 1..Len(sel) |->
            [content |-> sel[i].paras, type |-> type, source |-> sel[i].path]]

\* the paragraphs of a text that are not whitespace only
NonBlank(content) == SelectSeq(content, LAMBDA para : para # {})

\* RecursiveCharacterTextSplitter.split_documents: one chunk per paragraph
\* (chunks are stripped, empty ones dropped), each chunk carrying the
\* metadata of its document
SplitDocuments(docs) ==
    Flatten([i \in 1..Len(docs) |->
        [j \in 1..Len(NonBlank(docs[i].content)) |->
            [content |-> <<NonBlank(docs[i].content)[j]>>,
             type    |-> docs[i].type,
             source  |-> docs[i].source]]])

\* the chunks RAGEngine.load_knowledge_base hands to vectorstore.add_documents
SemanticChunks(files) ==
    SplitDocuments(Flatten([d \in 1..Len(DocTypes) |-> SemanticLoadDir(files, DocTypes[d])]))

\* ------------------------------------------------------ TF-IDF vectorizer
\* document frequency of term t over the texts the vectorizer is fitted on
Df(t, texts) == Cardinality({i \in 1..Len(texts) : t \in Tokens(texts[i].content)})

AllTokens(texts) == UNION {Tokens(texts[i].content) : i \in 1..Len(texts)}

\* TfidfVectorizer(min_df=1, max_df=0.95): terms in more than 95% of the
\* documents are pruned
Vocabulary(texts) ==
    {t \in AllTokens(texts) : /\ Df(t, texts) >= 1
                              /\ 100 * Df(t, texts) <= 95 * Len(texts)}

\* fit_transform raises on an empty vocabulary, when max_df * n_doc < min_df
\* and when pruning leaves no term
FitOk(texts) ==
    /\ AllTokens(texts) # {}
    /\ 95 * Len(texts) >= 100
    /\ Vocabulary(texts) # {}

\* smooth idf, ln((1 + n) / (1 + df)) + 1, times ten and rounded
Idf10(n, df) ==
    CASE df >= n           -> 10
      [] n = 2 /\ df = 1   -> 14
      [] n = 3 /\ df = 1   -> 17
      [] n = 3 /\ df = 2   -> 13
      [] n = 4 /\ df = 1   -> 19
      [] n = 4 /\ df = 2   -> 15
      [] n = 4 /\ df = 3   -> 12
      [] OTHER             -> 10 + 2 * (n - df)

\* the fitted vectorizer: vocabulary_ with the squared idf_ of each term
IdfSquared(basis) ==
    [t \in Vocabulary(basis) |->
        Idf10(Len(basis), Df(t, basis)) * Idf10(Len(basis), Df(t, basis))]

\* vectorizer.transform: the terms of the text that are in the vocabulary
Transform(content, w) == Tokens(content) \cap DOMAIN w

Norm2(terms, w) == SumOver(terms, w)

\* cosine_similarity of two transformed texts, as floor(1000 * cos^2)
CosineOf(num, qn, dn) ==
    IF num = 0 THEN 0 ELSE (num * num * 1000) \div (qn * dn)

CosineSimilarity(qv, dv, w) ==
    CosineOf(Norm2(qv \cap dv, w), Norm2(qv, w), Norm2(dv, w))

\* the similarities of the query vector to the rows of a matrix
Similarities(qv, rows, w) ==
    [i \in 1..Len(rows) |-> CosineSimilarity(qv, Transform(rows[i].content, w), w)]

\* np.argsort(similarities)[::-1]: indices by descending similarity, equal
\* similarities by descending index
RECURSIVE ArgsortDesc(_, _)
ArgsortDesc(sims, left) ==
    IF left = {} THEN <<>>
    ELSE LET best == CHOOSE i \in left :
                        \A j \in left : \/ sims[i] > sims[j]
                                        \/ (sims[i] = sims[j] /\ i >= j)
         IN  <<best>> \o ArgsortDesc(sims, left \ {best})

\* Python slice s[:k]
SliceTo(s, k) ==
    IF k >= 0 THEN SubSeq(s, 1, Min(k, Len(s)))
    ELSE SubSeq(s, 1, Max(0, Len(s) + k))

\* ------------------------------------------------ Lexical engine (DREAM)
\* FallbackRAGEngine.__init__; exists = FALSE stands for fallback_engine = None
NoEngine ==
    [exists       |-> FALSE,
     documents    |-> <<>>,
     vectorizer   |-> [state |-> "none", basis |-> <<>>],
     tfidf_matrix |-> [set |-> FALSE, rows |-> <<>>]]

\* FallbackRAGEngine.initialize on a fresh engine; returns the engine and
\* whether the call raised
FallbackInitialize(files, failAt) ==
    LET ld    == FallbackLoad(files, failAt)
        fresh == [NoEngine EXCEPT !.exists = TRUE, !.documents = ld.documents]
    IN  IF ld.raised THEN [engine |-> fresh, raised |-> TRUE]
        ELSE IF ld.documents = <<>> THEN [engine |-> fresh, raised |-> FALSE]
        ELSE IF FitOk(ld.documents)
             THEN [engine |-> [fresh EXCEPT
                                 !.vectorizer = [state |-> "fit", basis |-> ld.documents],
                                 !.tfidf_matrix = [set |-> TRUE, rows |-> ld.documents]],
                   raised |-> FALSE]
             ELSE [engine |-> [fresh EXCEPT !.vectorizer = [state |-> "unfit", basis |-> <<>>]],
                   raised |-> TRUE]

\* FallbackRAGEngine.rebuild_knowledge_base
FallbackRebuild(fe, files, failAt) ==
    LET ld     == FallbackLoad(files, failAt)
        loaded == [fe EXCEPT !.documents = ld.documents]
    IN  IF ld.raised THEN [engine |-> loaded, raised |-> TRUE]
        ELSE IF ld.documents = <<>> THEN [engine |-> loaded, raised |-> FALSE]
        ELSE IF fe.vectorizer.state = "none" THEN [engine |-> loaded, raised |-> TRUE]
        ELSE IF FitOk(ld.documents)
             THEN [engine |-> [loaded EXCEPT
                                 !.vectorizer = [state |-> "fit", basis |-> ld.documents],
                                 !.tfidf_matrix = [set |-> TRUE, rows |-> ld.documents]],
                   raised |-> FALSE]
             ELSE [engine |-> [loaded EXCEPT !.vectorizer.state = "unfit"],
                   raised |-> TRUE]

MkResult(d, score) ==
    [content |-> d.content, type |-> d.type, source |-> d.source,
     relevance_score |-> score]

\* a search that ignores filter_type
NoFilter(items, ft) == items

\* `if filter_type:` keeps the items whose metadata type is filter_type
\* (the list comprehension of the Lexical engine, the where filter of Chroma)
FilterByType(items, ft) ==
    IF Truthy(ft) THEN SelectSeq(items, LAMBDA d : d.type = ft) ELSE items

\* lines 175-184: the hits with a positive similarity, taken from
\* relevant_docs (an index past its end raises)
CollectResults(relevant, sims, hits) ==
    IF \E j \in 1..Len(hits) : hits[j] > Len(relevant)
    THEN [raised |-> TRUE, results |-> <<>>]
    ELSE [raised |-> FALSE,
          results |-> [j \in 1..Len(hits) |-> MkResult(relevant[hits[j]], sims[hits[j]])]]

\* every top index, whatever its similarity
AllHits(sims, top) == top

\* line 177: `if similarities[idx] > 0`
PositiveHits(sims, top) == SelectSeq(top, LAMBDA i : sims[i] > 0)

\* lines 172-184
RankAndCollect(relevant, sims, k) ==
    CollectResults(relevant, sims,
                   PositiveHits(sims, SliceTo(ArgsortDesc(sims, DOMAIN sims), k)))

\* a search that scores the rows of the stored matrix also under a filter
ScoreAndRankStoredRows(fe, query, k, ft, filtered, w) ==
    RankAndCollect(filtered,
                   Similarities(query \cap DOMAIN w, fe.tfidf_matrix.rows, w),
                   k)

\* lines 158-184: with a filter the filtered texts are transformed by the
\* fitted vectorizer, without one the stored matrix is used
ScoreAndRank(fe, query, k, ft, filtered, w) ==
    RankAndCollect(filtered,
                   Similarities(query \cap DOMAIN w,
                                IF Truthy(ft) THEN filtered ELSE fe.tfidf_matrix.rows,
                                w),
                   k)

\* term weights fitted anew on the filtered documents
RefitWeights(fe, filtered) == IdfSquared(filtered)

\* the term weights transform() applies: idf_ of the vectorizer as fitted
\* on the whole corpus, also for the filtered texts of line 165
FittedWeights(fe, filtered) == IdfSquared(fe.vectorizer.basis)

FilteredSearch(fe, query, k, ft, filtered) ==
    IF Truthy(ft) /\ filtered = <<>>
        THEN [raised |-> FALSE, results |-> <<>>]
    ELSE IF fe.vectorizer.state = "unfit"
        THEN [raised |-> TRUE, results |-> <<>>]
    ELSE ScoreAndRank(fe, query, k, ft, filtered, FittedWeights(fe, filtered))

\* the body of the try block of FallbackRAGEngine.search_knowledge
FallbackSearchBody(fe, query, k, ft) ==
    IF fe.vectorizer.state = "none" \/ fe.documents = <<>>
    THEN [raised |-> FALSE, results |-> <<>>]
    ELSE FilteredSearch(fe, query, k, ft, FilterByType(fe.documents, ft))

\* a search without its except clause
NoCatch(r) == r

\* `except Exception: return []`
CatchReturnEmpty(r) ==
    [raised |-> FALSE, results |-> IF r.raised THEN <<>> ELSE r.results]

\* --------------------------------------------------- Semantic search
\* distance of the query embedding to a chunk embedding (the embedding
\* model is external; any fixed function of the two texts will do)
Distance(query, chunk) ==
    Cardinality((query \ Tokens(chunk.content)) \cup (Tokens(chunk.content) \ query))

\* Chroma orders by ascending distance, equal distances by insertion order
RECURSIVE ArgsortAsc(_, _)
ArgsortAsc(dist, left) ==
    IF left = {} THEN <<>>
    ELSE LET best == CHOOSE i \in left :
                        \A j \in left : \/ dist[i] < dist[j]
                                        \/ (dist[i] = dist[j] /\ i <= j)
         IN  <<best>> \o ArgsortAsc(dist, left \ {best})

Distances(query, cand) == [i \in 1..Len(cand) |-> Distance(query, cand[i])]

NearestOf(cand, dist, top) ==
    [j \in 1..Len(top) |-> MkResult(cand[top[j]], dist[top[j]])]

\* similarity_search_with_score: the k nearest candidates with their distance
Nearest(cand, dist, k) ==
    NearestOf(cand, dist, SubSeq(ArgsortAsc(dist, DOMAIN dist), 1, Min(k, Len(cand))))

SimilaritySearchWithScore(cand, query, k) == Nearest(cand, Distances(query, cand), k)

\* the body of the try block of RAGEngine.search_knowledge; items is the
\* content of the collection behind vectorstore, queryFail the backend
\* throwing during the query
SemanticSearchBody(hasStore, items, query, k, ft, queryFail) ==
    IF ~hasStore \/ queryFail \/ k <= 0
    THEN [raised |-> TRUE, results |-> <<>>]
    ELSE [raised |-> FALSE,
          results |-> SimilaritySearchWithScore(FilterByType(items, ft), query, k)]

\* ------------------------------------------------------- DREAM RAGEngine
VARIABLES
    CHROMADB_AVAILABLE, \* module flag: the semantic dependencies imported
    corpus,             \* index in Corpora of the files in the data directory
    coll,               \* content of the Chroma collection, per client kind
    embeddings,         \* RAGEngine.embeddings is set
    text_splitter,      \* RAGEngine.text_splitter is set
    vectorstore,        \* "none", or the client kind the vector store wraps
    use_fallback,       \* RAGEngine.use_fallback
    fallback_engine,    \* RAGEngine.fallback_engine
    init_calls,         \* number of initialize() calls completed
    edits,              \* number of edits of the data directory
    last                \* the last call made on the engine and its outcome

dreamVars == <<CHROMADB_AVAILABLE, corpus, coll, embeddings, text_splitter,
               vectorstore, use_fallback, fallback_engine, init_calls, edits, last>>

\* the baby-care process (its actions are further down)
VARIABLES
    bc_available,   \* baby-care CHROMADB_AVAILABLE
    bc_corpus,      \* index in BabyCorpora of the files of the data dirs
    bc_coll,        \* content of the persistent Chroma collection
    bc_engine,      \* BabyCareChain.rag_engine
    bc_qa_chain,    \* BabyCareChain.qa_chain
    bc_pc,          \* position of the running setup_rag_chain call
    bc_task,        \* its locals
    bc_setups,      \* number of setup_rag_chain calls started
    bc_last         \* the last request answered and what it saw

\* one Chroma collection and the ChromaDBWrapper objects that share it
VARIABLES
    w_now,          \* the clock: int(time.time() * 1000)
    w_coll,         \* the records of the collection, in insertion order
    w_pc,           \* position of the running add_documents call
    w_call,         \* the running or last wrapper call: its locals and outcome
    w_adds          \* number of add_documents calls started

wrapVars == <<w_now, w_coll, w_pc, w_call, w_adds>>

babyVars == <<bc_available, bc_corpus, bc_coll, bc_engine, bc_qa_chain,
              bc_pc, bc_task, bc_setups, bc_last, wrapVars>>

\* initialize() has completed (returned or raised) on the engine
initialized == init_calls > 0

Files == Corpora[corpus]

NoCall ==
    [op |-> "none", raised |-> FALSE, results |-> <<>>, query |-> {},
     k |-> 0, ft |-> "None", semantic_failed |-> FALSE, by_fallback |-> FALSE,
     threw |-> FALSE, scan_failed |-> FALSE, status |-> 0, context |-> <<>>,
     total_documents |-> 0, component |-> "", cascade |-> FALSE,
     clients |-> {}, client |-> "none", attempted |-> <<>>]

\* the environment of one initialize() call: which external steps succeed
\* (a step that is not reached is listed once, as succeeding)
FailPoints == {0, 1, 2}

\* the number of client strategies of _initialize_chromadb
NumClients == 3

\* a cascade that prefers the in-memory client
ClientCascadeMemoryFirst(works) ==
    IF 3 \in works THEN [client |-> "memory", attempted |-> <<3>>]
    ELSE IF 1 \in works THEN [client |-> "duckdb", attempted |-> <<3, 1>>]
    ELSE IF 2 \in works THEN [client |-> "sqlite", attempted |-> <<3, 1, 2>>]
    ELSE [client |-> "fail", attempted |-> <<3, 1, 2>>]

\* the nested try/except of _initialize_chromadb: PersistentClient with the
\* DuckDB settings, else PersistentClient with the SQLite settings, else the
\* in-memory Client, whose failure propagates; works is the set of
\* strategies that would not raise
ClientCascade(works) ==
    IF 1 \in works THEN [client |-> "duckdb", attempted |-> <<1>>]
    ELSE IF 2 \in works THEN [client |-> "sqlite", attempted |-> <<1, 2>>]
    ELSE IF 3 \in works THEN [client |-> "memory", attempted |-> <<1, 2, 3>>]
    ELSE [client |-> "fail", attempted |-> <<1, 2, 3>>]

InitEnvs ==
    {e \in [emb : BOOLEAN, clients : SUBSET (1..NumClients),
            store : BOOLEAN, count : BOOLEAN, load1 : BOOLEAN, load2 : BOOLEAN,
            fbFailAt : FailPoints] :
        /\ ~e.emb => e.clients = 1..NumClients
        /\ (~e.emb \/ e.clients = {}) => e.store
        /\ (~e.emb \/ e.clients = {} \/ ~e.store) => (e.count /\ e.load2)
        /\ ~e.count => e.load1
        /\ (~e.emb \/ e.clients = {} \/ ~e.store) => e.load1}

\* the store behind a client: both persistent strategies open the same
\* directory, the in-memory client has a store of its own
StoreOf(client) == IF client = "memory" THEN "mem" ELSE "disk"

\* RAGEngine.load_knowledge_base; ok = FALSE is loading, embedding or
\* inserting raising
LoadKnowledgeBase(uf, items, files, ok) ==
    IF uf THEN [raised |-> FALSE, items |-> items]
    ELSE IF ~ok THEN [raised |-> TRUE, items |-> items]
    ELSE [raised |-> FALSE, items |-> items \o SemanticChunks(files)]

\* RAGEngine._initialize_chromadb
InitializeChromadb(env) ==
    LET unchanged == [raised |-> TRUE, embeddings |-> embeddings,
                      text_splitter |-> text_splitter,
                      vectorstore |-> vectorstore, coll |-> coll]
        withEmb   == [unchanged EXCEPT !.embeddings = TRUE, !.text_splitter = TRUE]
        client    == ClientCascade(env.clients).client
        st        == StoreOf(client)
        withStore == [withEmb EXCEPT !.vectorstore = st]
        first     == LoadKnowledgeBase(use_fallback, coll[st], Files, env.load1)
        second    == LoadKnowledgeBase(use_fallback, coll[st], Files, env.load2)
        needFirst == env.count /\ Len(coll[st]) = 0
        load      == IF needFirst /\ ~first.raised THEN first ELSE second
    IN  IF ~env.emb THEN unchanged
        ELSE IF client = "fail" \/ ~env.store THEN withEmb
        ELSE IF env.count /\ Len(coll[st]) # 0
            THEN [withStore EXCEPT !.raised = FALSE]
        ELSE [withStore EXCEPT !.raised = load.raised,
                               !.coll = [coll EXCEPT ![st] = load.items]]

\* a fallback that is assigned only once its initialize() has returned
InitializeFallbackAssignLast(env) ==
    IF FallbackInitialize(Files, env.fbFailAt).raised
    THEN [engine |-> NoEngine, raised |-> TRUE]
    ELSE FallbackInitialize(Files, env.fbFailAt)

\* RAGEngine._initialize_fallback: the engine is assigned, then initialized
InitializeFallback(env) == FallbackInitialize(Files, env.fbFailAt)

\* RAGEngine.initialize, while fewer than n calls were made
InitializeWithin(n) ==
    \E env \in InitEnvs :
        LET sem      == InitializeChromadb(env)
            semantic == CHROMADB_AVAILABLE /\ ~sem.raised
            fb       == InitializeFallback(env)
        IN  /\ init_calls < n
            /\ \A c \in DOMAIN sem.coll : Len(sem.coll[c]) <= MaxColl
            /\ IF CHROMADB_AVAILABLE
               THEN /\ embeddings' = sem.embeddings
                    /\ text_splitter' = sem.text_splitter
                    /\ vectorstore' = sem.vectorstore
                    /\ coll' = sem.coll
               ELSE UNCHANGED <<embeddings, text_splitter, vectorstore, coll>>
            /\ IF semantic
               THEN UNCHANGED <<use_fallback, fallback_engine>>
               ELSE /\ use_fallback' = TRUE
                    /\ fallback_engine' = fb.engine
            /\ last' = [NoCall EXCEPT !.op = "initialize",
                                      !.raised = (~semantic /\ fb.raised),
                                      !.semantic_failed = ~semantic,
                                      !.by_fallback = ~semantic,
                                      !.scan_failed = (~semantic /\ env.fbFailAt # 0),
                                      !.cascade = (CHROMADB_AVAILABLE /\ env.emb),
                                      !.clients = IF CHROMADB_AVAILABLE /\ env.emb
                                                  THEN env.clients ELSE {},
                                      !.client = IF CHROMADB_AVAILABLE /\ env.emb
                                                 THEN ClientCascade(env.clients).client
                                                 ELSE "none",
                                      !.attempted = IF CHROMADB_AVAILABLE /\ env.emb
                                                    THEN ClientCascade(env.clients).attempted
                                                    ELSE <<>>]
            /\ init_calls' = init_calls + 1
            /\ UNCHANGED <<CHROMADB_AVAILABLE, corpus, edits>>
            /\ UNCHANGED babyVars

Initialize == InitializeWithin(MaxInits)

\* the content of the collection behind a vector store
ItemsOf(vs, cl) == IF vs = "none" THEN <<>> ELSE cl[vs]

\* the try block of the backend that use_fallback selects
DreamSearchBody(uf, fe, vs, cl, query, k, ft, queryFail) ==
    IF uf
    THEN FallbackSearchBody(fe, query, k, ft)
    ELSE SemanticSearchBody(vs # "none", ItemsOf(vs, cl), query, k, ft, queryFail)

\* the dispatch of RAGEngine.search_knowledge; an unset fallback_engine
\* raises outside any try block
Dispatch(uf, fe, body) ==
    IF uf /\ ~fe.exists
    THEN [raised |-> TRUE, results |-> <<>>, threw |-> FALSE]
    ELSE [raised  |-> CatchReturnEmpty(body).raised,
          results |-> CatchReturnEmpty(body).results,
          threw   |-> body.raised]

\* RAGEngine.search_knowledge on an engine in the given state
DreamSearch(uf, fe, vs, cl, query, k, ft, queryFail) ==
    Dispatch(uf, fe, DreamSearchBody(uf, fe, vs, cl, query, k, ft, queryFail))

\* a search that keeps the filtered documents as the engine's documents
SearchKeepingFiltered(qs, ks, fts) ==
    \E query \in qs, k \in ks, ft \in fts, queryFail \in BOOLEAN :
        LET r == DreamSearch(use_fallback, fallback_engine, vectorstore, coll,
                             query, k, ft, queryFail)
        IN  /\ queryFail => ~use_fallback
            /\ last' = [NoCall EXCEPT !.op = "search", !.raised = r.raised,
                                      !.results = r.results, !.query = query,
                                      !.k = k, !.ft = ft,
                                      !.by_fallback = use_fallback,
                                      !.threw = r.threw]
            /\ fallback_engine' =
                  [fallback_engine EXCEPT !.documents = FilterByType(@, ft)]
            /\ UNCHANGED <<CHROMADB_AVAILABLE, corpus, coll, embeddings,
                           text_splitter, vectorstore, use_fallback,
                           init_calls, edits>>
            /\ UNCHANGED babyVars

Search(qs, ks, fts) ==
    \E query \in qs, k \in ks, ft \in fts, queryFail \in BOOLEAN :
        LET r == DreamSearch(use_fallback, fallback_engine, vectorstore, coll,
                             query, k, ft, queryFail)
        IN  /\ queryFail => ~use_fallback
            /\ last' = [NoCall EXCEPT !.op = "search", !.raised = r.raised,
                                      !.results = r.results, !.query = query,
                                      !.k = k, !.ft = ft,
                                      !.by_fallback = use_fallback,
                                      !.threw = r.threw]
            /\ UNCHANGED <<CHROMADB_AVAILABLE, corpus, coll, embeddings,
                           text_splitter, vectorstore, use_fallback,
                           fallback_engine, init_calls, edits>>
            /\ UNCHANGED babyVars

\* search_knowledge with any modelled input
SearchKnowledge == Search(Queries, Ks, FilterTypes)

\* search_knowledge with the probe inputs used over a whole engine life
ProbeSearch == Search({{1, 2}}, {1}, {"None", "framework"})

\* component names a caller may pass
Components == {"demand", "Moat", "pricing"}

\* str.lower()
Lower(c) == IF c = "Moat" THEN "moat" ELSE c

\* component_queries, each expansion as the terms of its text
component_queries ==
    [demand |-> {1, 2}, resolution |-> {2}, earning |-> {2, 3},
     acquisition |-> {3}, moat |-> {1}]

\* component_queries of FallbackRAGEngine.get_dream_framework_context
fallback_component_queries ==
    [demand |-> {1, 2}, resolution |-> {2}, earning |-> {2, 3},
     acquisition |-> {3}, moat |-> {1}]

\* the terms of a raw component string used as the query
RawQuery(c) == IF c = "pricing" THEN {3} ELSE {}

\* a lookup that does not lower-case the component
DictGetCased(queries, c) ==
    IF c \in DOMAIN queries THEN queries[c] ELSE RawQuery(c)

\* dict.get(component.lower(), component)
DictGet(queries, c) ==
    IF Lower(c) \in DOMAIN queries THEN queries[Lower(c)] ELSE RawQuery(c)

\* the query get_dream_framework_context searches with, by backend
ComponentQuery(uf, c) ==
    IF uf THEN DictGet(fallback_component_queries, c)
    ELSE DictGet(component_queries, c)

\* str.strip() on a text kept as its sequence of paragraphs: whitespace-only
\* paragraphs at both ends go
RECURSIVE LStrip(_)
LStrip(text) ==
    IF text # <<>> /\ Head(text) = {} THEN LStrip(Tail(text)) ELSE text

RECURSIVE RStrip(_)
RStrip(text) ==
    IF text # <<>> /\ text[Len(text)] = {}
    THEN RStrip(SubSeq(text, 1, Len(text) - 1))
    ELSE text

Strip(text) == RStrip(LStrip(text))

\* the loop `context += f"{result['content']}\n\n"`: every content followed
\* by a blank line
ConcatContents(results) ==
    Flatten([i \in 1..Len(results) |-> results[i].content]) \o
        (IF results = <<>> THEN <<>> ELSE <<{}>>)

\* RAGEngine.get_dream_framework_context / FallbackRAGEngine.get_dream_framework_context;
\* the context is kept as the sequence of contents that are joined
Context(components) ==
    \E c \in components, queryFail \in BOOLEAN :
        LET r == DreamSearch(use_fallback, fallback_engine, vectorstore, coll,
                             ComponentQuery(use_fallback, c), ContextK,
                             "framework", queryFail)
        IN  /\ initialized
            /\ queryFail => ~use_fallback
            /\ last' = [NoCall EXCEPT !.op = "context", !.raised = r.raised,
                                      !.results = r.results,
                                      !.query = ComponentQuery(use_fallback, c),
                                      !.component = c,
                                      !.k = ContextK, !.ft = "framework",
                                      !.by_fallback = use_fallback,
                                      !.threw = r.threw,
                                      !.context = Strip(ConcatContents(r.results))]
            /\ UNCHANGED <<CHROMADB_AVAILABLE, corpus, coll, embeddings,
                           text_splitter, vectorstore, use_fallback,
                           fallback_engine, init_calls, edits>>
            /\ UNCHANGED babyVars

GetDreamFrameworkContext == Context(Components)

\* get_dream_framework_context with the probe input used over an engine life
ProbeContext == Context({"demand"})

\* the environment of one rebuild_knowledge_base() call
RebuildEnvs ==
    {e \in [clear : BOOLEAN, drop : BOOLEAN, client1 : BOOLEAN, client2 : BOOLEAN,
            store : BOOLEAN, load : BOOLEAN, fbFailAt : FailPoints] :
        /\ e.clear => (e.drop /\ e.client1 /\ e.client2 /\ e.store)
        /\ e.client1 => e.client2
        /\ (~e.client1 /\ ~e.client2) => (e.store /\ e.load)
        /\ ~e.store => e.load
        /\ e.fbFailAt # 0 => (e.clear /\ e.load)}

\* the Semantic branch of RAGEngine.rebuild_knowledge_base
SemanticRebuild(env) ==
    LET dropped  == IF env.drop THEN [coll EXCEPT ![vectorstore] = <<>>] ELSE coll
        cleared  == [coll EXCEPT ![vectorstore] = <<>>]
        vs       == IF env.clear THEN vectorstore ELSE "disk"
        cl       == IF env.clear THEN cleared ELSE dropped
        load     == LoadKnowledgeBase(use_fallback, cl[vs], Files, env.load)
    IN  IF ~env.clear /\ ((~env.client1 /\ ~env.client2) \/ ~env.store)
        THEN [raised |-> TRUE, vectorstore |-> vectorstore, coll |-> dropped]
        ELSE [raised |-> load.raised, vectorstore |-> vs,
              coll |-> [cl EXCEPT ![vs] = load.items]]

\* what the active backend holds
ActiveItems(uf, fe, vs, cl) == IF uf THEN fe.documents ELSE ItemsOf(vs, cl)

\* RAGEngine.rebuild_knowledge_base as called by the /knowledge/rebuild
\* route: raised is the outcome of the engine method, status the answer of
\* the route (200 with status "success", or 500)
RebuildKnowledgeBase ==
    \E env \in RebuildEnvs :
        LET sem == SemanticRebuild(env)
            fb  == FallbackRebuild(fallback_engine, Files, env.fbFailAt)
            r   == IF use_fallback THEN fb.raised ELSE sem.raised
        IN  /\ initialized
            /\ IF use_fallback
               THEN /\ fallback_engine' = fb.engine
                    /\ UNCHANGED <<vectorstore, coll>>
               ELSE /\ \A c \in DOMAIN sem.coll : Len(sem.coll[c]) <= MaxColl
                    /\ vectorstore' = sem.vectorstore
                    /\ coll' = sem.coll
                    /\ UNCHANGED fallback_engine
            /\ last' = [NoCall EXCEPT
                          !.op = "rebuild", !.raised = r,
                          !.by_fallback = use_fallback,
                          !.scan_failed = (use_fallback /\ env.fbFailAt # 0),
                          !.status = IF r THEN 500 ELSE 200]
            /\ UNCHANGED <<CHROMADB_AVAILABLE, corpus, embeddings, text_splitter,
                           use_fallback, init_calls, edits>>
            /\ UNCHANGED babyVars

\* GET /knowledge/stats: total_documents is the count of the collection
\* behind rag_engine.vectorstore, 0 without a vector store; a count that
\* raises is answered with 500
GetKnowledgeBaseStats ==
    \E countOk \in BOOLEAN :
        /\ initialized
        /\ ~countOk => vectorstore # "none"
        /\ last' = [NoCall EXCEPT
                      !.op = "stats",
                      !.raised = ~countOk,
                      !.by_fallback = use_fallback,
                      !.status = IF countOk THEN 200 ELSE 500,
                      !.total_documents =
                          IF countOk THEN Len(ItemsOf(vectorstore, coll)) ELSE 0]
        /\ UNCHANGED <<CHROMADB_AVAILABLE, corpus, coll, embeddings, text_splitter,
                       vectorstore, use_fallback, fallback_engine, init_calls, edits>>
        /\ UNCHANGED babyVars

\* the files of the data directory are edited between calls
ChangeCorpus ==
    /\ edits < MaxEdits
    /\ \E c \in 1..Min(MaxCorpus, NCorpora) : c # corpus /\ corpus' = c
    /\ edits' = edits + 1
    /\ last' = [NoCall EXCEPT !.op = "corpus"]
    /\ UNCHANGED <<CHROMADB_AVAILABLE, coll, embeddings, text_splitter,
                   vectorstore, use_fallback, fallback_engine, init_calls>>
    /\ UNCHANGED babyVars

\* a constructed engine over one of the first n corpora; the persist
\* directory is empty or holds the chunks an earlier process ingested
DreamInitOver(n) ==
    /\ CHROMADB_AVAILABLE \in BOOLEAN
    /\ corpus \in 1..n
    /\ coll \in {[disk |-> d, mem |-> <<>>] : d \in {<<>>, SemanticChunks(Files)}}
    /\ embeddings = FALSE
    /\ text_splitter = FALSE
    /\ vectorstore = "none"
    /\ use_fallback = FALSE
    /\ fallback_engine = NoEngine
    /\ init_calls = 0
    /\ edits = 0
    /\ last = NoCall

DreamInit == DreamInitOver(Min(MaxCorpus, NCorpora))

\* the first initialize() call on an engine
FirstInitialize == InitializeWithin(1)

DreamNext ==
    \/ Initialize
    \/ ProbeSearch
    \/ ProbeContext
    \/ RebuildKnowledgeBase
    \/ GetKnowledgeBaseStats
    \/ ChangeCorpus

\* --------------------------------------------------- baby-care engine
\* the chunks split_documents yields for the files of data/knowledge and
\* data/faq
BabyCorpora ==
    << <<>>,
       << MkFile(1, "knowledge", "md", TRUE, <<{1, 2}>>) >>,
       << MkFile(1, "knowledge", "md", TRUE, <<{1}>>),
          MkFile(2, "faq", "md", TRUE, <<{2, 3}>>) >>,
       << MkFile(1, "knowledge", "md", TRUE, <<{1}>>),
          MkFile(2, "faq", "txt", FALSE, <<{2, 3}>>) >> >>

\* the data directories, in the order load_documents visits them
DataDirs == <<"knowledge", "faq">>

\* DirectoryLoader(data_dir, glob="*.<suffix>").load() without silent_errors:
\* a file that cannot be read makes load() raise
DirectoryLoad(files, dir, suffix) ==
    LET sel == SelectSeq(files, LAMBDA f : f.dir = dir /\ f.suffix = suffix)
    IN  [raised    |-> \E i \in DOMAIN sel : ~sel[i].readable,
         documents |-> [i \in 1..Len(sel) |->
                          [content |-> sel[i].paras, source |-> sel[i].path]]]

\* baby-care RAGEngine.load_documents: per directory the .md loader, then
\* the .txt loader; a loader that raises ends load_documents
LoadDocuments(files) ==
    [raised    |-> \E d \in DOMAIN DataDirs, sf \in {"md", "txt"} :
                      DirectoryLoad(files, DataDirs[d], sf).raised,
     documents |-> Flatten([d \in 1..Len(DataDirs) |->
                      DirectoryLoad(files, DataDirs[d], "md").documents \o
                      DirectoryLoad(files, DataDirs[d], "txt").documents])]

\* baby-care RAGEngine.split_documents: one chunk per paragraph
BabySplitDocuments(docs) ==
    Flatten([i \in 1..Len(docs) |->
        [j \in 1..Len(NonBlank(docs[i].content)) |->
            [content |-> <<NonBlank(docs[i].content)[j]>>,
             source  |-> docs[i].source]]])

BabyFiles == BabyCorpora[bc_corpus]

\* the chunks of the files of the corpus that can be read
BabyChunks ==
    BabySplitDocuments(
        LoadDocuments(SelectSeq(BabyFiles, LAMBDA f : f.readable)).documents)

\* k of the retriever set up by setup_retriever
RetrieverK == 4
\* the largest n_results similarity_search requests
MaxResults == 10

PickItems(items, top) == [j \in 1..Len(top) |-> items[top[j]]]

NearestItems(items, dist, n) ==
    PickItems(items, SubSeq(ArgsortAsc(dist, DOMAIN dist), 1, Min(n, Len(items))))

\* a search that requests k neighbours, whatever k is
SimilaritySearchUnclamped(items, query, k, queryFail) ==
    IF queryFail THEN <<>>
    ELSE NearestItems(items, Distances(query, items), k)

\* ChromaDBWrapper.similarity_search
SimilaritySearch(items, query, k, queryFail) ==
    IF queryFail THEN <<>>
    ELSE NearestItems(items, Distances(query, items), Min(k, MaxResults))

NoBabyEngine ==
    [gen |-> 0, embeddings |-> FALSE, vectorstore |-> FALSE, retriever |-> FALSE,
     strategy |-> 0, attempted |-> <<>>, works |-> {},
     client |-> "none", clients_tried |-> <<>>, clients |-> {}]

\* the number of entries of the strategies list of _setup_embeddings
NumStrategies == 4

\* the for loop of _setup_embeddings from strategy i on: the first strategy
\* that does not raise sets self.embeddings and returns
RECURSIVE TryStrategies(_, _, _)
TryStrategies(i, works, attempted) ==
    IF i > NumStrategies THEN [strategy |-> 0, attempted |-> attempted]
    ELSE IF i \in works THEN [strategy |-> i, attempted |-> Append(attempted, i)]
    ELSE TryStrategies(i + 1, works, Append(attempted, i))

\* a resolver that tries every strategy and keeps the last that works
SetupEmbeddingsKeepLast(available, works) ==
    IF ~available THEN [strategy |-> 0, attempted |-> <<>>]
    ELSE [strategy  |-> IF works = {} THEN 0
                        ELSE CHOOSE w \in works : \A v \in works : v <= w,
          attempted |-> [n \in 1..NumStrategies |-> n]]

\* baby-care RAGEngine._setup_embeddings; works is the set of strategies
\* that would not raise
SetupEmbeddings(available, works) ==
    IF ~available THEN [strategy |-> 0, attempted |-> <<>>]
    ELSE TryStrategies(1, works, <<>>)

\* the collection in the persist directory and the one of the in-memory
\* client, both empty
NoStores == [disk |-> <<>>, mem |-> <<>>]

\* a retrieval that answers the empty list when no retriever is set
RetrieveDocumentsOrEmpty(engine, stores, query) ==
    [raised |-> FALSE,
     docs   |-> IF ~engine.retriever THEN <<>>
                ELSE SimilaritySearch(stores[StoreOf(engine.client)], query,
                                      RetrieverK, FALSE)]

\* RAGEngine.retrieve_documents: ValueError without a retriever
RetrieveDocuments(engine, stores, query) ==
    IF ~engine.retriever
    THEN [raised |-> TRUE, docs |-> <<>>]
    ELSE [raised |-> FALSE,
          docs   |-> SimilaritySearch(stores[StoreOf(engine.client)], query,
                                      RetrieverK, FALSE)]

NoTask ==
    [kind |-> "none", force |-> FALSE, docs |-> <<>>, i |-> 0, pre |-> NoStores,
     load |-> "none"]

NoRequest ==
    [op |-> "none", result |-> "none", during |-> FALSE, seen |-> <<>>,
     pre |-> <<>>, docs |-> <<>>, force |-> FALSE, load |-> "none",
     before |-> NoStores]

\* the three `if not client_created` strategies of baby-care
\* _initialize_chromadb, in order; works is the set that would not raise
BabyClientCascade(works) ==
    IF 1 \in works THEN [client |-> "duckdb", attempted |-> <<1>>]
    ELSE IF 2 \in works THEN [client |-> "sqlite", attempted |-> <<1, 2>>]
    ELSE IF 3 \in works THEN [client |-> "memory", attempted |-> <<1, 2, 3>>]
    ELSE [client |-> "fail", attempted |-> <<1, 2, 3>>]

\* the collection an engine reads and writes
BabyStore(engine) == StoreOf(engine.client)

\* setup_rag_chain returns (or initialize_rag returned False): the task ends
BabyFinishWith(result, load) ==
    /\ bc_pc' = "idle"
    /\ bc_task' = NoTask
    /\ bc_last' = [NoRequest EXCEPT !.op = bc_task.kind, !.result = result,
                                    !.before = bc_task.pre, !.force = bc_task.force,
                                    !.load = load]

BabyFinish(result) == BabyFinishWith(result, "none")

\* startup_event -> initialize_chain: setup_rag_chain(force_rebuild=False),
\* before any request is served
BabyStartup ==
    /\ bc_pc = "idle" /\ bc_setups = 0
    /\ bc_pc' = "construct"
    /\ bc_task' = [NoTask EXCEPT !.kind = "startup", !.pre = bc_coll]
    /\ bc_setups' = 1
    /\ UNCHANGED <<bc_available, bc_corpus, bc_coll, bc_engine, bc_qa_chain, bc_last>>
    /\ UNCHANGED <<dreamVars, wrapVars>>

\* POST /rebuild-knowledge: queues rebuild_task and answers "started"
BabyRebuildRoute ==
    \E force \in BOOLEAN :
        /\ bc_pc = "idle" /\ bc_setups >= 1 /\ bc_setups < MaxSetups
        /\ bc_pc' = "construct"
        /\ bc_task' = [NoTask EXCEPT !.kind = "rebuild", !.force = force,
                                     !.pre = bc_coll]
        /\ bc_setups' = bc_setups + 1
        /\ bc_last' = [NoRequest EXCEPT !.op = "rebuild-route", !.result = "started",
                                        !.force = force]
        /\ UNCHANGED <<bc_available, bc_corpus, bc_coll, bc_engine, bc_qa_chain>>
        /\ UNCHANGED <<dreamVars, wrapVars>>

\* setup_rag_chain: self.rag_engine = RAGEngine(...); the constructor runs
\* _setup_embeddings
BabyConstruct ==
    \E works \in SUBSET (1..NumStrategies) :
        /\ bc_pc = "construct"
        /\ bc_engine' = [NoBabyEngine EXCEPT
              !.gen = bc_engine.gen + 1,
              !.embeddings = (SetupEmbeddings(bc_available, works).strategy # 0),
              !.strategy = SetupEmbeddings(bc_available, works).strategy,
              !.attempted = SetupEmbeddings(bc_available, works).attempted,
              !.works = works]
        /\ bc_pc' = "initialize"
        /\ UNCHANGED <<bc_available, bc_corpus, bc_coll, bc_qa_chain, bc_task,
                       bc_setups, bc_last>>
        /\ UNCHANGED <<dreamVars, wrapVars>>

\* RAGEngine.initialize_rag up to the first collection.add
BabyInitializeRag ==
    \E clients \in SUBSET (1..NumClients), collOk \in BOOLEAN,
       countOk \in BOOLEAN, loadOk \in BOOLEAN :
        LET cascade == BabyClientCascade(clients)
            opened  == [bc_engine EXCEPT !.client = cascade.client,
                                         !.clients_tried = cascade.attempted,
                                         !.clients = clients]
            st      == StoreOf(cascade.client)
            rebuild_needed == \/ bc_task.force
                              \/ ~countOk
                              \/ Len(bc_coll[st]) = 0
        IN  /\ bc_pc = "initialize"
            /\ IF ~bc_available \/ ~bc_engine.embeddings
               THEN BabyFinish("False") /\ UNCHANGED bc_engine
               ELSE IF cascade.client = "fail" \/ ~collOk
               THEN BabyFinish("False") /\ bc_engine' = opened
               ELSE /\ bc_engine' = [opened EXCEPT !.vectorstore = TRUE]
                    /\ IF ~rebuild_needed
                       THEN /\ bc_pc' = "retriever"
                            /\ UNCHANGED <<bc_task, bc_last>>
                       ELSE IF LoadDocuments(BabyFiles).raised
                       THEN BabyFinishWith("False", "raised")
                       ELSE IF LoadDocuments(BabyFiles).documents = <<>>
                       THEN BabyFinishWith("False", "empty")
                       ELSE IF ~loadOk
                       THEN BabyFinishWith("False", "loaded")
                       ELSE /\ bc_pc' = "add"
                            /\ bc_task' = [bc_task EXCEPT
                                  !.docs = BabySplitDocuments(
                                              LoadDocuments(BabyFiles).documents),
                                  !.i = 0, !.load = "loaded"]
                            /\ UNCHANGED bc_last
            /\ UNCHANGED <<bc_available, bc_corpus, bc_coll, bc_qa_chain, bc_setups>>
            /\ UNCHANGED <<dreamVars, wrapVars>>

\* one turn of the batch loop of ChromaDBWrapper.add_documents
BabyAddBatch ==
    \E addOk \in BOOLEAN :
        LET n         == Len(bc_task.docs)
            batch_end == Min(bc_task.i + batch_size, n)
            batch     == SubSeq(bc_task.docs, bc_task.i + 1, batch_end)
            st        == BabyStore(bc_engine)
        IN  /\ bc_pc = "add"
            /\ Len(bc_coll[st]) + Len(batch) <= MaxColl
            /\ IF ~addOk
               THEN BabyFinish("False") /\ UNCHANGED bc_coll
               ELSE /\ bc_coll' = [bc_coll EXCEPT ![st] = @ \o batch]
                    /\ bc_task' = [bc_task EXCEPT !.i = bc_task.i + batch_size]
                    /\ bc_pc' = IF bc_task.i + batch_size >= n THEN "retriever" ELSE "add"
                    /\ UNCHANGED bc_last
            /\ UNCHANGED <<bc_available, bc_corpus, bc_engine, bc_qa_chain, bc_setups>>
            /\ UNCHANGED <<dreamVars, wrapVars>>

\* setup_retriever, then setup_rag_chain installs the new qa_chain
BabyInstall ==
    /\ bc_pc = "retriever"
    /\ bc_engine' = [bc_engine EXCEPT !.retriever = TRUE]
    /\ bc_qa_chain' = [set |-> TRUE, gen |-> bc_engine.gen,
                       store |-> BabyStore(bc_engine)]
    /\ bc_pc' = "idle"
    /\ bc_task' = NoTask
    /\ bc_last' = [NoRequest EXCEPT !.op = bc_task.kind, !.result = "True",
                                    !.before = bc_task.pre, !.docs = bc_task.docs,
                                    !.force = bc_task.force,
                                    !.load = bc_task.load]
    /\ UNCHANGED <<bc_available, bc_corpus, bc_coll, bc_setups>>
    /\ UNCHANGED <<dreamVars, wrapVars>>

\* POST /ask -> BabyCareChain.ask_question -> qa_chain -> retriever
BabyAsk ==
    \E query \in {{1, 2}, {3}}, queryFail \in BOOLEAN :
        /\ bc_setups >= 1
        /\ ~(bc_pc # "idle" /\ bc_task.kind = "startup")
        /\ bc_last' = IF bc_qa_chain.set
                      THEN [NoRequest EXCEPT
                              !.op = "ask", !.result = "answer",
                              !.during = (bc_pc # "idle"),
                              !.seen = bc_coll[bc_qa_chain.store],
                              !.pre = bc_task.pre[bc_qa_chain.store],
                              !.docs = SimilaritySearch(bc_coll[bc_qa_chain.store],
                                                        query, RetrieverK, queryFail)]
                      ELSE [NoRequest EXCEPT !.op = "ask", !.result = "not initialized",
                                             !.during = (bc_pc # "idle")]
        /\ UNCHANGED <<bc_available, bc_corpus, bc_coll, bc_engine, bc_qa_chain,
                       bc_pc, bc_task, bc_setups>>
        /\ UNCHANGED <<dreamVars, wrapVars>>

\* ------------------------------------------------ baby-care ChromaDBWrapper
\* the input document i of a call: page_content (one paragraph holding the
\* term i) and metadata
MkDocument(i) == [page_content |-> <<{i}>>, metadata |-> <<"meta", i>>]

\* f"doc_{timestamp}_{i}": two decimal numbers joined by an underscore
DocId(timestamp, i) == <<"doc", timestamp, i>>

\* embedding_function.embed_documents: one vector per text
EmbedDocuments(texts) == [i \in DOMAIN texts |-> <<"vec", texts[i]>>]

\* a slice that loses the first element of every batch
SliceFromSecond(s, i, j) == SubSeq(s, i + 2, Min(j, Len(s)))

\* Python slice s[i:j] (0-based, j exclusive, cut at the end)
Slice(s, i, j) == SubSeq(s, i + 1, Min(j, Len(s)))

\* lines 92-96: the four parallel slices of one turn of the batch loop
BatchAt(call, i) ==
    [at         |-> i,
     embeddings |-> Slice(call.embeddings, i, Min(i + batch_size, call.n)),
     documents  |-> Slice(call.texts, i, Min(i + batch_size, call.n)),
     metadatas  |-> Slice(call.metadatas, i, Min(i + batch_size, call.n)),
     ids        |-> Slice(call.ids, i, Min(i + batch_size, call.n))]

\* an exception made by the embedding function or the collection: it says
\* what failed there, the wrapper's loop index is not known to it
BackendError(what) == [from |-> what, batch |-> 0]

\* lines 106-108: `except Exception as e: logger.error(...); raise`
Reraise(e, i) == e

NoWrapCall ==
    [op |-> "none", n |-> 0, timestamp |-> 0, texts |-> <<>>, metadatas |-> <<>>,
     ids |-> <<>>, embeddings |-> <<>>, i |-> 0, batches |-> <<>>,
     raised |-> FALSE, error |-> [from |-> "none", batch |-> 0], before |-> <<>>,
     query |-> {}, k |-> 0, results |-> <<>>, asked |-> 0, threw |-> FALSE]

\* the records collection.add stores for a batch
RecordsOf(batch) ==
    [p \in DOMAIN batch.ids |->
        [id |-> batch.ids[p], document |-> batch.documents[p],
         metadata |-> batch.metadatas[p]]]

IdsIn(records) == {records[p].id : p \in DOMAIN records}

\* time passes, also while a call is running
WrapTick ==
    /\ w_now < MaxClock
    /\ w_now' = w_now + 1
    /\ UNCHANGED <<w_coll, w_pc, w_call, w_adds>>
    /\ UNCHANGED <<dreamVars, bc_available, bc_corpus, bc_coll, bc_engine,
                   bc_qa_chain, bc_pc, bc_task, bc_setups, bc_last>>

\* ChromaDBWrapper.add_documents up to the batch loop (lines 71-87), called
\* on any wrapper of the collection
WrapAddDocuments ==
    \E n \in {0, 1, batch_size, batch_size + 1, MaxDocs}, embedOk \in BOOLEAN :
        LET documents == [i \in 1..n |-> MkDocument(i)]
            texts     == [i \in 1..n |-> documents[i].page_content]
            metadatas == [i \in 1..n |-> documents[i].metadata]
            ids       == [i \in 1..n |-> DocId(w_now, i - 1)]
            call      == [NoWrapCall EXCEPT !.op = "add_documents", !.n = n,
                                            !.before = w_coll]
            started   == [call EXCEPT !.timestamp = w_now, !.texts = texts,
                                      !.metadatas = metadatas, !.ids = ids]
        IN  /\ w_pc = "idle" /\ w_adds < MaxAdds
            /\ w_adds' = w_adds + 1
            /\ IF n = 0
               THEN w_call' = call /\ w_pc' = "idle"
               ELSE IF ~embedOk
               THEN /\ w_call' = [started EXCEPT
                                    !.raised = TRUE,
                                    !.error = Reraise(BackendError("embed_documents"), 0)]
                    /\ w_pc' = "idle"
               ELSE /\ w_call' = [started EXCEPT !.embeddings = EmbedDocuments(texts)]
                    /\ w_pc' = "batch"
            /\ UNCHANGED <<w_now, w_coll>>
            /\ UNCHANGED <<dreamVars, bc_available, bc_corpus, bc_coll, bc_engine,
                           bc_qa_chain, bc_pc, bc_task, bc_setups, bc_last>>

\* one turn of the batch loop (lines 91-104); collection.add may fail, and
\* given an id the collection already holds it raises or skips that
\* record, depending on the Chroma version
WrapAddBatch ==
    \E addOk \in BOOLEAN, onDuplicate \in {"raise", "skip"} :
        LET batch  == BatchAt(w_call, w_call.i)
            fresh  == SelectSeq(RecordsOf(batch),
                                LAMBDA r : r.id \notin IdsIn(w_coll))
            clash  == Len(fresh) < Len(batch.ids)
            fails  == ~addOk \/ (clash /\ onDuplicate = "raise")
            next_i == w_call.i + batch_size
        IN  /\ w_pc = "batch"
            /\ (~clash) => onDuplicate = "skip"
            /\ IF fails
               THEN /\ w_call' = [w_call EXCEPT
                          !.batches = Append(@, batch),
                          !.raised = TRUE,
                          !.error = Reraise(BackendError("collection.add"),
                                            w_call.i)]
                    /\ w_pc' = "idle"
                    /\ UNCHANGED w_coll
               ELSE /\ w_coll' = w_coll \o fresh
                    /\ w_call' = [w_call EXCEPT !.batches = Append(@, batch),
                                                !.i = next_i]
                    /\ w_pc' = IF next_i < w_call.n THEN "batch" ELSE "idle"
            /\ UNCHANGED <<w_now, w_adds>>
            /\ UNCHANGED <<dreamVars, bc_available, bc_corpus, bc_coll, bc_engine,
                           bc_qa_chain, bc_pc, bc_task, bc_setups, bc_last>>

\* the records of a collection as the items a query ranks
AsItems(records) ==
    [p \in DOMAIN records |->
        [content |-> records[p].document, type |-> "", source |-> records[p].id]]

\* ChromaDBWrapper.similarity_search on any wrapper of the collection;
\* collection.query raises for an n_results that is not positive, and for
\* one above the size of the collection it raises or cuts it to the size,
\* depending on the Chroma version
WrapSimilaritySearch ==
    \E query \in {{}, {1}, {MaxResults}},
       k \in {0 - 1, 0, 1, RetrieverK, MaxResults, MaxResults + 1,
              MaxResults + MaxOver},
       embedFail \in BOOLEAN, queryFail \in BOOLEAN, overAsk \in {"raise", "cut"} :
        LET n     == Min(k, MaxResults)
            threw == \/ embedFail \/ queryFail
                     \/ n <= 0
                     \/ (n > Len(w_coll) /\ overAsk = "raise")
        IN  /\ w_pc = "idle"
            /\ embedFail => ~queryFail
            /\ (embedFail \/ queryFail \/ n <= Len(w_coll)) => overAsk = "cut"
            /\ w_call' = [NoWrapCall EXCEPT
                            !.op = "similarity_search", !.query = query,
                            !.k = k, !.asked = n,
                            !.threw = threw,
                            !.results = SimilaritySearch(AsItems(w_coll), query, k,
                                                         threw)]
            /\ UNCHANGED <<w_now, w_coll, w_pc, w_adds>>
            /\ UNCHANGED <<dreamVars, bc_available, bc_corpus, bc_coll, bc_engine,
                           bc_qa_chain, bc_pc, bc_task, bc_setups, bc_last>>

\* a collection filled by one add_documents call of n documents
FilledBy(n) ==
    RecordsOf([ids       |-> [i \in 1..n |-> DocId(0, i - 1)],
               documents |-> [i \in 1..n |-> MkDocument(i).page_content],
               metadatas |-> [i \in 1..n |-> MkDocument(i).metadata]])

\* no wrapper call was made on an empty collection
WrapInit ==
    /\ w_now = 0
    /\ w_coll = <<>>
    /\ w_pc = "idle"
    /\ w_call = NoWrapCall
    /\ w_adds = 0

BabyInit ==
    /\ bc_available \in BOOLEAN
    /\ bc_corpus \in 1..Len(BabyCorpora)
    /\ bc_coll \in {[NoStores EXCEPT !.disk = d] : d \in {<<>>, BabyChunks}}
    /\ bc_engine = NoBabyEngine
    /\ bc_qa_chain = [set |-> FALSE, gen |-> 0, store |-> "disk"]
    /\ bc_pc = "idle"
    /\ bc_task = NoTask
    /\ bc_setups = 0
    /\ bc_last = NoRequest
    /\ WrapInit

BabyNext ==
    \/ BabyStartup
    \/ BabyRebuildRoute
    \/ BabyConstruct
    \/ BabyInitializeRag
    \/ BabyAddBatch
    \/ BabyInstall
    \/ BabyAsk

\* ------------------------------------------------------- specifications
vars == <<dreamVars, babyVars>>

\* no baby-care process: none is started and no task is left to queue
NoBabyProcess ==
    /\ bc_available = FALSE
    /\ bc_corpus = 1
    /\ bc_coll = NoStores
    /\ bc_engine = NoBabyEngine
    /\ bc_qa_chain = [set |-> FALSE, gen |-> 0, store |-> "disk"]
    /\ bc_pc = "idle"
    /\ bc_task = NoTask
    /\ bc_setups = MaxSetups
    /\ bc_last = NoRequest

BabyOff == NoBabyProcess /\ WrapInit

\* no DREAM engine: none is constructed and no initialize() is left to call
DreamOff ==
    /\ CHROMADB_AVAILABLE = FALSE
    /\ corpus = 1
    /\ coll = [disk |-> <<>>, mem |-> <<>>]
    /\ embeddings = FALSE
    /\ text_splitter = FALSE
    /\ vectorstore = "none"
    /\ use_fallback = FALSE
    /\ fallback_engine = NoEngine
    /\ init_calls = MaxInits
    /\ edits = 0
    /\ last = NoCall

\* the life of one DREAM engine object
Init == DreamInit /\ BabyOff

Next == DreamNext

Spec == Init /\ [][Next]_vars

\* one initialize() of a DREAM engine over any corpus, then searches with
\* every modelled input
SearchInit == DreamInitOver(NCorpora) /\ BabyOff

SearchNext ==
    \/ FirstInitialize
    \/ SearchKnowledge
    \/ GetDreamFrameworkContext

SearchSpec == SearchInit /\ [][SearchNext]_vars

\* the baby-care process: startup, /ask requests and /rebuild-knowledge
\* tasks running beside them
BabySpecInit == DreamOff /\ BabyInit

BabySpec == BabySpecInit /\ [][BabyNext]_vars

WrapSpecNext ==
    \/ WrapTick
    \/ WrapAddDocuments
    \/ WrapAddBatch

WrapSpecInit == DreamOff /\ BabyOff

WrapSpec == WrapSpecInit /\ [][WrapSpecNext]_vars

\* queries on a collection of any modelled size
QueryInit ==
    /\ DreamOff /\ NoBabyProcess
    /\ w_now = 0
    /\ w_coll \in {FilledBy(n) : n \in {0, 1, RetrieverK, MaxResults, MaxResults + MaxOver}}
    /\ w_pc = "idle"
    /\ w_call = NoWrapCall
    /\ w_adds = 0

QueryNext == WrapSimilaritySearch

QuerySpec == QueryInit /\ [][QueryNext]_vars

\* either application opening its vector store: the first initialize() of a
\* DREAM engine, or the startup and the rebuild tasks of baby-care
OpenInit == Init \/ BabySpecInit

OpenNext ==
    \/ FirstInitialize
    \/ BabyStartup
    \/ BabyRebuildRoute
    \/ BabyConstruct
    \/ BabyInitializeRag
    \/ BabyAddBatch
    \/ BabyInstall

OpenSpec == OpenInit /\ [][OpenNext]_vars

\* ------------------------------------------------------------ properties
\* k when the caller passes none
DefaultK == 5

\* a FallbackRAGEngine whose initialize() ran to its end: it exists and,
\* when it holds documents, has a fitted vectorizer and a matrix
FallbackInitialized(fe) ==
    /\ fe.exists
    /\ fe.documents # <<>> => (fe.vectorizer.state = "fit" /\ fe.tfidf_matrix.set)

\* C1: an initialize() call whose semantic path was unavailable or failed
\* (every directory of the corpus being readable) ends with use_fallback
\* set, an initialized FallbackRAGEngine, and no exception raised to the
\* caller.
C1_FallsBackToLexical ==
    (last.op = "initialize" /\ last.semantic_failed /\ ~last.scan_failed) =>
        /\ use_fallback
        /\ FallbackInitialized(fallback_engine)
        /\ ~last.raised

\* the inputs of search_knowledge
SearchInputs ==
    [query : Queries, k : Ks, ft : FilterTypes, queryFail : BOOLEAN]

SearchOn(in) ==
    DreamSearch(use_fallback, fallback_engine, vectorstore, coll,
                in.query, in.k, in.ft, in.queryFail)

\* C2: in every engine state search_knowledge raises for no input, and
\* returns the empty list when the backend throws during the query or the
\* active index holds nothing; the last search made obeyed the same.
C2_SearchNeverRaises ==
    /\ \A in \in SearchInputs :
          /\ ~SearchOn(in).raised
          /\ (SearchOn(in).threw
                \/ ActiveItems(use_fallback, fallback_engine, vectorstore, coll) = <<>>)
             => SearchOn(in).results = <<>>
    /\ last.op \in {"search", "context"} =>
          /\ ~last.raised
          /\ last.threw => last.results = <<>>

\* C2 witness: a search on a Lexical engine whose vectorizer was left unfit
\* by a failed initialize or rebuild threw inside and answered the empty list
C2_Witness ==
    /\ last.op = "search" /\ last.threw /\ ~last.raised /\ last.results = <<>>
    /\ use_fallback /\ fallback_engine.vectorizer.state = "unfit"

\* C3: once initialize() has completed, no step changes use_fallback.
C3_BackendFixed == [][initialized => use_fallback' = use_fallback]_vars

\* the documents the Lexical loader reads from the source corpus
LexicalCorpus == FallbackLoad(Files, 0).documents

\* search_knowledge(text of d) with the default k and no filter returns d
\* with a positive relevance_score
FindsVerbatim(d) ==
    \E j \in DOMAIN DreamSearch(use_fallback, fallback_engine, vectorstore, coll,
                                Tokens(d.content), DefaultK, "None", FALSE).results :
        LET hit == DreamSearch(use_fallback, fallback_engine, vectorstore, coll,
                               Tokens(d.content), DefaultK, "None", FALSE).results[j]
        IN  /\ hit.source = d.source
            /\ hit.content = d.content
            /\ hit.relevance_score > 0

\* C4: when initialize() ran on the Lexical backend over a corpus with at
\* least one document (and no directory scan failed), it did not raise and
\* the verbatim text of every indexed document finds that document with a
\* positive score.
C4_LexicalVerbatim ==
    (/\ last.op = "initialize" /\ last.by_fallback /\ ~last.scan_failed
     /\ LexicalCorpus # <<>>) =>
        /\ ~last.raised
        /\ \A i \in DOMAIN LexicalCorpus : FindsVerbatim(LexicalCorpus[i])

\* every result of the last search has the requested type, and there is
\* none when the active index holds no item of that type
OnlyOfRequestedType ==
    /\ \A j \in DOMAIN last.results : last.results[j].type = last.ft
    /\ (\A i \in DOMAIN ActiveItems(use_fallback, fallback_engine, vectorstore, coll) :
            ActiveItems(use_fallback, fallback_engine, vectorstore, coll)[i].type # last.ft)
       => last.results = <<>>

\* C5 as stated: a search given any filter_type T (anything but None)
\* returns only items of type T, and nothing when no item has type T.
C5_AnyFilter ==
    (last.op \in {"search", "context"} /\ last.ft # "None") => OnlyOfRequestedType

\* C5: a search given a non-empty filter_type T returns only items of type
\* T, and nothing when no indexed item has type T (the empty string is
\* treated as no filter).
C5_NonEmptyFilter ==
    (last.op \in {"search", "context"} /\ Truthy(last.ft)) => OnlyOfRequestedType

\* C5 witness: a filtered search over an index that also holds another
\* type returned something
C5_Witness ==
    /\ last.op = "search" /\ last.ft = "framework" /\ last.results # <<>>
    /\ \E i \in DOMAIN ActiveItems(use_fallback, fallback_engine, vectorstore, coll) :
          ActiveItems(use_fallback, fallback_engine, vectorstore, coll)[i].type # "framework"

\* C6: when a baby-care rebuild task with force_rebuild=True has finished
\* with success, the collection holds the chunks of that ingestion exactly
\* once.
C6_ReplacesNotDuplicates ==
    (bc_last.op = "rebuild" /\ bc_last.force /\ bc_last.result = "True") =>
        /\ Len(bc_coll[BabyStore(bc_engine)]) = Len(bc_last.docs)
        /\ bc_coll[BabyStore(bc_engine)] = bc_last.docs

\* the first result of search_knowledge(query, k=1) on an engine state
Top1(uf, fe, vs, cl, query) == DreamSearch(uf, fe, vs, cl, query, 1, "None", FALSE).results

\* C7: a successful rebuild_knowledge_base directly after a successful one
\* (the corpus untouched in between) leaves the number of indexed items
\* and the top-1 result of every query as they were.
C7_RebuildIdempotent ==
    [][(/\ last.op = "rebuild" /\ ~last.raised
        /\ last'.op = "rebuild" /\ ~last'.raised) =>
         /\ Len(ActiveItems(use_fallback', fallback_engine', vectorstore', coll'))
              = Len(ActiveItems(use_fallback, fallback_engine, vectorstore, coll))
         /\ \A q \in Queries :
              Top1(use_fallback', fallback_engine', vectorstore', coll', q)
                = Top1(use_fallback, fallback_engine, vectorstore, coll, q)]_vars

\* C8: an /ask answered while a rebuild task is running saw the collection
\* as it was when the task started or holding the corpus exactly once.
C8_NoIntermediateIndex ==
    (bc_last.op = "ask" /\ bc_last.during /\ bc_last.result = "answer") =>
        bc_last.seen \in {bc_last.pre, BabyChunks}

\* what the active backend answers searches from
IndexOf(uf, fe, vs, cl) ==
    IF uf
    THEN [documents |-> fe.documents, vectorizer |-> fe.vectorizer,
          tfidf_matrix |-> fe.tfidf_matrix]
    ELSE [documents |-> ItemsOf(vs, cl), vectorizer |-> NoEngine.vectorizer,
          tfidf_matrix |-> NoEngine.tfidf_matrix]

\* C9: a rebuild_knowledge_base call that raises leaves the index of the
\* active backend as it was before the call, or empty.
C9_FailedRebuildAllOrNothing ==
    [][(last'.op = "rebuild" /\ last'.raised) =>
         \/ IndexOf(use_fallback', fallback_engine', vectorstore', coll')
              = IndexOf(use_fallback, fallback_engine, vectorstore, coll)
         \/ ActiveItems(use_fallback', fallback_engine', vectorstore', coll') = <<>>]_vars

\* the active index holds the whole source corpus once and nothing else
FreshlyIngested ==
    IF use_fallback
    THEN /\ fallback_engine.documents = LexicalCorpus
         /\ LexicalCorpus # <<>> => /\ fallback_engine.vectorizer.state = "fit"
                                    /\ fallback_engine.tfidf_matrix.rows = LexicalCorpus
    ELSE ItemsOf(vectorstore, coll) = SemanticChunks(Files)

\* C10: when the /knowledge/rebuild route answers success, the old content
\* was cleared and the whole corpus re-ingested.
C10_SuccessMeansRebuilt ==
    (last.op = "rebuild" /\ last.status = 200) => FreshlyIngested

\* C11: a /knowledge/stats answer given by an engine on the Lexical backend
\* reports as total_documents the number of documents the Lexical index
\* holds.
C11_StatsOfActiveBackend ==
    (last.op = "stats" /\ last.status = 200 /\ use_fallback) =>
        last.total_documents = Len(fallback_engine.documents)

\* "\n\n".join of the contents of the results
JoinContents(results) == Flatten([i \in 1..Len(results) |-> results[i].content])

\* the query, k, filter and results of the last get_dream_framework_context
ContextSearchAsSpecified ==
    /\ last.component = "demand" => last.query = {1, 2}
    /\ last.component = "Moat" => last.query = {1}
    /\ last.component = "pricing" => last.query = RawQuery("pricing")
    /\ ComponentQuery(TRUE, last.component) = ComponentQuery(FALSE, last.component)
    /\ last.k = 3 /\ last.ft = "framework"
    /\ Len(last.results) <= 3
    /\ \A j \in DOMAIN last.results : last.results[j].type = "framework"
    /\ last.results = <<>> => last.context = <<>>

\* C12 as stated: the text get_dream_framework_context returns is the
\* contents of the returned results joined by a blank line.
C12_ContextIsJoin ==
    last.op = "context" =>
        /\ ContextSearchAsSpecified
        /\ last.context = JoinContents(last.results)

\* C12: get_dream_framework_context searches with the expansion of the
\* component (case-insensitive, the raw string when unknown), k = 3 and
\* filter "framework" with either backend, and returns the contents of the
\* results joined by a blank line with the whitespace at both ends of the
\* whole text stripped (the empty string without results).
C12_ContextIsStrippedJoin ==
    last.op = "context" =>
        /\ ContextSearchAsSpecified
        /\ last.context = Strip(JoinContents(last.results))

\* C12 witness: a context built from two framework results for a component
\* given in mixed case
C12_Witness ==
    /\ last.op = "context" /\ last.component = "Moat"
    /\ Len(last.results) = 2 /\ last.context # <<>>

\* C13: a baby-care setup task over a corpus in which some file cannot be
\* read does not fail in load_documents, and when it ingests, it ingests
\* the chunks of every file that can be read.
C13_UnreadableSkipped ==
    bc_last.op \in {"startup", "rebuild"} =>
        /\ bc_last.load # "raised"
        /\ (bc_last.load = "loaded" /\ bc_last.result = "True") =>
              bc_last.docs = BabyChunks

\* C14: a search_knowledge or get_dream_framework_context step leaves
\* use_fallback, the Lexical engine (documents, vectorizer, matrix), the
\* vector store and the content of every collection unchanged.
C14_SearchIsPureRead ==
    [][last'.op \in {"search", "context"} =>
         UNCHANGED <<use_fallback, fallback_engine, vectorstore, coll>>]_vars

\* C14 witness: a search on the Semantic backend hit a backend error
C14_Witness ==
    /\ last.op = "search" /\ last.threw /\ ~use_fallback /\ vectorstore # "none"
    /\ coll[vectorstore] # <<>>

\* C15: the engine a setup task constructed tried the embedding strategies
\* 1, 2, ... in order up to the first that works and uses that one; when
\* none works embeddings is None, and the task then ends with False
\* without a vector store and without touching the collection.
C15_EmbeddingStrategiesInOrder ==
    (bc_available /\ bc_engine.gen > 0) =>
        /\ bc_engine.embeddings = (bc_engine.works # {})
        /\ bc_engine.works # {} =>
              /\ bc_engine.strategy \in bc_engine.works
              /\ \A w \in bc_engine.works : bc_engine.strategy <= w
              /\ bc_engine.attempted = [n \in 1..bc_engine.strategy |-> n]
        /\ bc_engine.works = {} =>
              /\ bc_engine.strategy = 0
              /\ bc_engine.attempted = [n \in 1..NumStrategies |-> n]
              /\ ~bc_engine.vectorstore
              /\ bc_last.op \in {"startup", "rebuild"} =>
                    (bc_last.result = "False" /\ bc_coll = bc_last.before)

\* C15 witness: strategies 1 and 2 failed, 3 was used and 4 never tried
C15_Witness ==
    /\ bc_engine.works = {3, 4} /\ bc_engine.strategy = 3
    /\ bc_engine.attempted = <<1, 2, 3>>
    /\ bc_last.op = "rebuild" /\ bc_last.result = "True"

\* a cascade that attempted the strategies `attempted` and ended with
\* `client`, when exactly the strategies in `works` can succeed: the attempts
\* are 1, 2, ... in order, every attempt but the last failed, the last one is
\* the first that works and is the client in use, and the cascade fails only
\* after all three were attempted and failed
CascadeInOrder(attempted, client, works) ==
    /\ Len(attempted) \in 1..NumClients
    /\ \A i \in DOMAIN attempted : attempted[i] = i
    /\ \A i \in DOMAIN attempted : i < Len(attempted) => attempted[i] \notin works
    /\ IF works = {}
       THEN Len(attempted) = NumClients /\ client = "fail"
       ELSE /\ attempted[Len(attempted)] \in works
            /\ client = <<"duckdb", "sqlite", "memory">>[attempted[Len(attempted)]]

\* C16: in both applications the client strategies are attempted in the
\* fixed order persistent primary, persistent secondary, in-memory, each only
\* after every earlier one failed; the client in use is the first that
\* succeeds; only when all three fail does the failure propagate: baby-care
\* initialize_rag returns False, the DREAM engine falls back to Lexical
C16_ClientCascadeInOrder ==
    /\ (last.op = "initialize" /\ last.cascade) =>
          /\ CascadeInOrder(last.attempted, last.client, last.clients)
          /\ last.client = "fail" => (last.semantic_failed /\ use_fallback)
          /\ (last.client # "fail" /\ vectorstore # "none") =>
                vectorstore = StoreOf(last.client)
    /\ bc_engine.client # "none" =>
          /\ CascadeInOrder(bc_engine.clients_tried, bc_engine.client,
                            bc_engine.clients)
          /\ (bc_engine.client = "fail" /\ bc_pc = "idle") =>
                (bc_last.op \in {"startup", "rebuild"} /\ bc_last.result = "False")
          /\ bc_engine.client = "fail" => ~bc_engine.vectorstore

\* the primary strategy failed, the secondary one succeeded and is in use
C16_Witness ==
    /\ last.op = "initialize" /\ last.cascade
    /\ last.clients = {2, 3}
    /\ last.attempted = <<1, 2>>
    /\ last.client = "sqlite"
    /\ ~use_fallback /\ vectorstore = "disk"

\* C17: initialization ingests exactly when the opened collection is empty:
\* a DREAM initialize() or a baby-care initialize_rag(force_rebuild = False)
\* that opens a collection holding chunks adds nothing, and one that opens
\* an empty collection ingests the source documents before the engine is
\* Semantic / before it goes on to return True
C17_IngestsIffEmpty ==
    [][/\ (init_calls' = init_calls + 1 /\ vectorstore' # "none") =>
            IF Len(coll[vectorstore']) > 0
            THEN coll' = coll
            ELSE ~use_fallback' => coll'[vectorstore'] = SemanticChunks(Files)
       /\ (bc_pc = "initialize" /\ ~bc_task.force /\ bc_pc' = "add") =>
            Len(bc_coll[BabyStore(bc_engine')]) = 0
       /\ (bc_pc = "initialize" /\ ~bc_task.force /\ bc_pc' = "retriever") =>
            Len(bc_coll[BabyStore(bc_engine')]) > 0
      ]_vars

\* C18: a Lexical rebuild is safe after the corpus changed: from every
\* Lexical state, rebuild_knowledge_base with a readable data directory
\* completes and leaves a term matrix with one row per current document, in
\* order (shown here for every corpus but the single-document ones, whose
\* fit fails in initialize already)
C18_LexicalRebuildSafe ==
    (/\ last.op = "rebuild" /\ last.by_fallback /\ ~last.scan_failed
     /\ Len(FallbackLoad(Files, 0).documents) # 1) =>
        /\ ~last.raised
        /\ fallback_engine.documents = FallbackLoad(Files, 0).documents
        /\ fallback_engine.tfidf_matrix.rows = fallback_engine.documents

\* the last call was a Lexical search with a type filter that scored some
\* candidates
FilteredLexicalSearch ==
    /\ last.op = "search" /\ last.by_fallback /\ Truthy(last.ft)
    /\ last.k >= 0
    /\ ~last.threw /\ ~last.raised
    /\ fallback_engine.vectorizer.state = "fit"
    /\ FilterByType(fallback_engine.documents, last.ft) # <<>>

\* what the search returns when the weights are those of a vectorizer fitted
\* on the filtered documents alone
WithSubsetWeights ==
    ScoreAndRank(fallback_engine, last.query, last.k, last.ft,
                 FilterByType(fallback_engine.documents, last.ft),
                 IdfSquared(FilterByType(fallback_engine.documents, last.ft)))

\* the score each indexed document has against the query without any filter
UnfilteredScores(query) ==
    Similarities(query \cap DOMAIN IdfSquared(fallback_engine.vectorizer.basis),
                 fallback_engine.tfidf_matrix.rows,
                 IdfSquared(fallback_engine.vectorizer.basis))

\* C19 as stated: a Lexical search with a type filter scores the matching
\* documents with term weights recomputed over the filtered subset
C19_SubsetWeights ==
    FilteredLexicalSearch => last.results = WithSubsetWeights.results

\* C19: a Lexical search with a type filter restricts the candidates to the
\* matching documents before scoring and truncating, and scores them with
\* the term weights fitted on the full corpus: every returned item is a
\* document of the type with the score it has in an unfiltered search, and
\* the k best positive ones of that type are returned
C19_FullCorpusWeights ==
    FilteredLexicalSearch =>
        /\ \A j \in DOMAIN last.results :
              \E i \in DOMAIN fallback_engine.documents :
                  /\ fallback_engine.documents[i].type = last.ft
                  /\ last.results[j] = MkResult(fallback_engine.documents[i],
                                                UnfilteredScores(last.query)[i])
        /\ Len(last.results) =
              Min(last.k,
                  Cardinality({i \in DOMAIN fallback_engine.documents :
                                  /\ fallback_engine.documents[i].type = last.ft
                                  /\ UnfilteredScores(last.query)[i] > 0}))

\* C19 witness: a filtered search returned two documents whose scores are
\* not the ones subset weights would give
C19_Witness ==
    /\ FilteredLexicalSearch
    /\ Len(last.results) >= 2
    /\ last.results # WithSubsetWeights.results

\* the last call was a Lexical search with k >= 1 that scored its candidates
RankedLexicalSearch ==
    /\ last.op = "search" /\ last.by_fallback /\ last.k >= 1
    /\ ~last.threw /\ ~last.raised
    /\ fallback_engine.vectorizer.state = "fit"
    /\ fallback_engine.documents # <<>>

\* the candidates of the last search that are not among its results, with
\* their scores
Omitted ==
    {MkResult(fallback_engine.documents[i], UnfilteredScores(last.query)[i]) :
        i \in {n \in DOMAIN fallback_engine.documents :
                  Truthy(last.ft) => fallback_engine.documents[n].type = last.ft}}
    \ Range(last.results)

\* C20: for every k >= 1 a Lexical search returns at most k results, each
\* with relevance_score > 0, in non-increasing score order, and no omitted
\* candidate scores higher than a returned one: the result is the top k of
\* the positively scored candidates
C20_TopKPositive ==
    RankedLexicalSearch =>
        /\ Len(last.results) <= last.k
        /\ \A j \in DOMAIN last.results : last.results[j].relevance_score > 0
        /\ \A j \in DOMAIN last.results :
              j < Len(last.results) =>
                 last.results[j].relevance_score >= last.results[j + 1].relevance_score
        /\ \A o \in Omitted :
              /\ \A j \in DOMAIN last.results :
                    o.relevance_score <= last.results[j].relevance_score
              /\ Len(last.results) < last.k => o.relevance_score <= 0

\* C20 witness: k = 1 cut the list short of a second candidate with a
\* positive score
C20_Witness ==
    /\ RankedLexicalSearch
    /\ last.k = 1 /\ Len(last.results) = 1
    /\ \E o \in Omitted : o.relevance_score > 0

\* the source files represented in an index
SourcesOf(items) == {items[i].source : i \in DOMAIN items}

\* the texts of the indexed units, in index order
UnitsOf(items) == [i \in DOMAIN items |-> items[i].content]

\* C21: for the same source directories the Lexical index and the Semantic
\* index are built over the same corpus: what a Lexical engine has indexed
\* after a load that scanned every directory represents the same source
\* files as the chunks the Semantic load makes of those directories, and
\* the indexed units are those chunks
C21_SameCorpus ==
    (/\ last.op = "initialize" /\ last.by_fallback /\ ~last.scan_failed
     /\ fallback_engine.exists) =>
        /\ SourcesOf(fallback_engine.documents) = SourcesOf(SemanticChunks(Files))
        /\ UnitsOf(fallback_engine.documents) = UnitsOf(SemanticChunks(Files))

\* C22: add_documents gives every chunk it inserts an identifier that
\* differs from every other identifier in the collection: the identifiers of
\* every batch handed to collection.add are distinct from one another and
\* from those the collection held when the call began
C22_FreshIdentifiers ==
    w_call.op = "add_documents" =>
        \A b \in DOMAIN w_call.batches :
            /\ \A p \in DOMAIN w_call.batches[b].ids :
                  w_call.batches[b].ids[p] \notin IdsIn(w_call.before)
            /\ \A p, q \in DOMAIN w_call.ids :
                  p # q => w_call.ids[p] # w_call.ids[q]

\* an add_documents call that returned normally
AddReturned == w_call.op = "add_documents" /\ w_pc = "idle" /\ ~w_call.raised

\* C23: add_documents inserts in batches that partition the input: a call
\* that returns made ceil(n/100) collection.add calls (none for n = 0), each
\* of at most 100 chunks, and position p of batch b is input chunk
\* 100 * (b - 1) + p with its own text, metadata, embedding and identifier
C23_BatchesPartitionInput ==
    AddReturned =>
        /\ Len(w_call.batches) = (w_call.n + batch_size - 1) \div batch_size
        /\ \A b \in DOMAIN w_call.batches :
              LET batch == w_call.batches[b]
                  size  == Min(batch_size, w_call.n - batch_size * (b - 1))
              IN  /\ Len(batch.ids) = size /\ size \in 1..batch_size
                  /\ Len(batch.documents) = size
                  /\ Len(batch.metadatas) = size
                  /\ Len(batch.embeddings) = size
                  /\ \A p \in 1..size :
                        LET g == batch_size * (b - 1) + p
                        IN  /\ batch.documents[p] = MkDocument(g).page_content
                            /\ batch.metadatas[p] = MkDocument(g).metadata
                            /\ batch.embeddings[p] =
                                  EmbedDocuments(<<MkDocument(g).page_content>>)[1]
                            /\ batch.ids[p] = DocId(w_call.timestamp, g - 1)

\* C23 witness: a call with more than two full batches returned after three
\* inserts, the last one partial
C23_Witness ==
    /\ AddReturned
    /\ w_call.n > 2 * batch_size
    /\ Len(w_call.batches) = 3
    /\ Len(w_call.batches[3].ids) < batch_size

\* C24: when the insert of batch j fails the failure is not skipped:
\* add_documents raises to its caller, the error names batch j, and no batch
\* after j is attempted
C24_FailureNamesBatch ==
    (/\ w_call.op = "add_documents" /\ w_call.batches # <<>>
     /\ w_call.error.from = "collection.add") =>
        /\ w_call.raised /\ w_pc = "idle"
        /\ w_call.i = batch_size * (Len(w_call.batches) - 1)
        /\ w_call.error = [from |-> "collection.add", batch |-> Len(w_call.batches)]

\* C25: similarity_search(query, k) requests min(k, 10) neighbours and so
\* never returns more than 10 documents nor more than k (none for k < 1);
\* when embedding the query or querying the collection fails it returns the
\* empty list
C25_AtMostTen ==
    w_call.op = "similarity_search" =>
        /\ w_call.asked = Min(w_call.k, MaxResults)
        /\ Len(w_call.results) <= MaxResults
        /\ Len(w_call.results) <= Max(w_call.k, 0)
        /\ w_call.threw => w_call.results = <<>>

\* C25 witness: a k above 10 on a collection of more than 10 records
\* returned 10 documents
C25_Witness ==
    /\ w_call.op = "similarity_search" /\ ~w_call.threw
    /\ w_call.k > MaxResults /\ Len(w_coll) > MaxResults
    /\ Len(w_call.results) = MaxResults

\* C26: the facade never dispatches to an unset backend: once initialize()
\* has returned or raised, use_fallback = True implies fallback_engine is
\* set and use_fallback = False implies vectorstore is set, so no call is
\* answered by the dispatch reaching a missing object
C26_BackendIsSet ==
    initialized =>
        /\ use_fallback => fallback_engine.exists
        /\ ~use_fallback => vectorstore # "none"
        /\ ~Dispatch(use_fallback, fallback_engine,
                     [raised |-> FALSE, results |-> <<>>]).raised

\* C26 witness: initialize() raised out of the fallback and left a Lexical
\* engine whose fallback_engine is set
C26_Witness ==
    /\ last.op = "initialize" /\ last.raised
    /\ use_fallback /\ fallback_engine.exists

\* a setup_rag_chain call has just ended: bc_engine is the engine it
\* constructed and bc_last.result what initialize_rag returned on it
InitializeRagReturned ==
    bc_pc = "idle" /\ bc_last.op \in {"startup", "rebuild"}

\* C27: on a freshly constructed baby-care engine initialize_rag returns
\* True exactly when the retriever is set at its return; it returns False,
\* and does not raise, when the dependencies or the embeddings are missing,
\* when the store or the ingestion fails, or when a rebuild finds no
\* documents; after a False return retrieve_documents raises
C27_TrueIffRetriever ==
    InitializeRagReturned =>
        /\ bc_last.result \in {"True", "False"}
        /\ bc_last.result = "True" <=> bc_engine.retriever
        /\ (\/ ~bc_available
            \/ ~bc_engine.embeddings
            \/ bc_engine.client = "fail"
            \/ ~bc_engine.vectorstore
            \/ bc_last.load \in {"raised", "empty", "loaded"} /\ bc_last.docs = <<>>)
           => bc_last.result = "False"
        /\ bc_last.result = "False" =>
              \A query \in {{1, 2}, {3}} :
                  RetrieveDocuments(bc_engine, bc_coll, query).raised

\* C27 witness: the store opened, the ingestion failed, initialize_rag
\* returned False and left no retriever
C27_Witness ==
    /\ InitializeRagReturned
    /\ bc_engine.vectorstore /\ ~bc_engine.retriever
    /\ bc_last.result = "False"

\* C28: after any sequence of setup_rag_chain calls, whenever qa_chain is
\* installed and no call is running, its retriever is the retriever of the
\* chain's current rag_engine (a failed call having left both untouched)
C28_ChainFollowsEngine ==
    (bc_pc = "idle" /\ bc_qa_chain.set) =>
        /\ bc_engine.retriever
        /\ bc_qa_chain.gen = bc_engine.gen

\* the unfiltered search for the query of the last call, asked for every
\* document: the full ranking
FullRanking ==
    FallbackSearchBody(fallback_engine, last.query,
                       Len(fallback_engine.documents), "None").results

\* C29: in the Lexical backend filtering commutes with scoring: while the
\* documents are those of the last fit, the result of a search with
\* filter_type = T is the unfiltered full ranking restricted to the
\* documents of type T and cut to k, each document with the score it has
\* there
C29_FilterCommutes ==
    (/\ FilteredLexicalSearch
     /\ fallback_engine.tfidf_matrix.rows = fallback_engine.documents) =>
        last.results =
            SliceTo(SelectSeq(FullRanking, LAMBDA r : r.type = last.ft), last.k)

\* C29 witness: the filter removed the best document of the full ranking
\* and kept a lower one
C29_Witness ==
    /\ FilteredLexicalSearch
    /\ last.results # <<>>
    /\ FullRanking[1].type # last.ft

\* C30: for every integer k, also 0 and negative ones, a Lexical search
\* returns at most max(k, 0) results
C30_AtMostKResults ==
    (last.op = "search" /\ last.by_fallback) =>
        Len(last.results) <= Max(last.k, 0)

====
